---- MODULE Spec2Model ----
(***************************************************************************)
(* The invoice auditor of src/app.py: a Streamlit script.  Every browser    *)
(* session runs the script in a thread of its own inside one process; a     *)
(* widget interaction reruns the script, and the "Analyze" button calls     *)
(* analyze_invoice(provider, api_key, raw_text), which makes one call to    *)
(* the selected backend and turns its reply into an InvoiceExtraction.      *)
(*                                                                          *)
(* Amounts are exact decimals counted in hundredths (20.0 is 2000), so      *)
(* binary floating-point rounding is outside the model.                     *)
(***************************************************************************)
EXTENDS Integers, Sequences, FiniteSets, TLC

VARIABLES
  provider,       \* per session: the sidebar radio (line 161)
  api_key,        \* per session: the sidebar text input (line 162)
  uploaded_file,  \* per session: the file uploader's document (line 172)
  pc,             \* per session: where the script run stands
  reply,          \* per session: what the backend answered to the run's call
  result,         \* per session: what analyze_invoice returned (line 200)
  calls,          \* per session: the outbound calls the run made, in order
  messages,       \* per session: st.warning / st.error shown by the script run
  genai_api_key,  \* process-wide: the key set by genai.configure (line 104)
  installed       \* process-wide: the SDKs whose import succeeded (lines 10-25)

vars == <<provider, api_key, uploaded_file, pc, reply, result, calls, messages,
          genai_api_key, installed>>

-----------------------------------------------------------------------------
(* Bounds *)

\* The longest line_items list a backend reply carries.
MaxItems == 1

\* The number of browser sessions of the concurrent specification.
NSessions == 2

-----------------------------------------------------------------------------
(* Python values *)

PyNone == [py |-> "None"]

PyStr(s) == [py |-> "str", str |-> s]

\* Python truthiness of None and of a str (a text is a sequence of tokens).
Truthy(x) == x.py = "str" /\ x.str # <<>>

-----------------------------------------------------------------------------
(* The sidebar and the uploader *)

Providers == {"OpenAI", "Google Gemini", "Anthropic (Claude)", "Groq (Llama 3)"}

\* st.text_input starts empty; the keys a user may type.
Keys == {"key-A", "key-B"}

NoFile == [present |-> FALSE, readable |-> FALSE, pages |-> <<>>]

\* A PDF: whether pdfplumber can open it, and what extract_text() gives for
\* each page (None for a page without a text layer).
Pdf(readable, pages) == [present |-> TRUE, readable |-> readable, pages |-> pages]

\* A file pdfplumber cannot open, a scan without a text layer, and an invoice
\* whose second page is an image.
Docs ==
  { Pdf(FALSE, <<>>),
    Pdf(TRUE, <<PyNone>>),
    Pdf(TRUE, <<PyStr(<<"INVOICE">>), PyNone, PyStr(<<"Widget">>)>>) }

RECURSIVE PageText(_)
PageText(pages) ==
  IF pages = <<>> THEN <<>>
  ELSE LET t == Head(pages)
       IN (IF Truthy(t) THEN t.str ELSE <<>>) \o PageText(Tail(pages))

Message(level, text, detail) == [level |-> level, text |-> text, detail |-> detail]

\* extract_text_from_pdf: the text of all pages, or None and an error shown.
extract_text_from_pdf(f) ==
  IF f.readable
  THEN [value |-> PyStr(PageText(f.pages)), shown |-> <<>>]
  ELSE [value |-> PyNone,
        shown |-> <<Message("error", "Error reading PDF", "Exception")>>]

\* raw_text of the script run (line 184); the script extracts only when a file
\* is uploaded.
raw_text(f) == extract_text_from_pdf(f).value

\* What a script run has shown before it reaches the button.
PreviewMessages(f) == IF f.present THEN extract_text_from_pdf(f).shown ELSE <<>>

-----------------------------------------------------------------------------
(* JSON values, as json.loads builds them: a record whose one field names   *)
(* the JSON type.  A number is kept in hundredths.                          *)

JNull == [null |-> TRUE]

JBool(b) == [bool |-> b]

JNum(c) == [number |-> c]

JStr(s) == [string |-> s]

JArr(seq) == [array |-> seq]

JObj(f) == [object |-> f]

\* The JSON type of a value.
Is(j, type) == type \in DOMAIN j

\* The texts Python parses as a number, with the number (in hundredths).
StrToNum == ("12.50" :> 1250) @@ ("5" :> 500) @@ ("150" :> 15000)

\* The texts pydantic reads as a bool.
StrToBool == ("true" :> TRUE) @@ ("false" :> FALSE) @@ ("yes" :> TRUE) @@ ("no" :> FALSE)

-----------------------------------------------------------------------------
(* The schema (lines 36-56): pydantic models without validators, validated   *)
(* in pydantic's default (lax) mode.                                        *)

Fail == [ok |-> FALSE]

Ok(x) == [ok |-> TRUE, value |-> x]

\* A str field takes a string only.
str_validate(j) == IF Is(j, "string") THEN Ok(j.string) ELSE Fail

\* A float field takes a number, a bool, or a text that parses as a number.
float_validate(j) ==
  CASE Is(j, "number") -> Ok(j.number)
    [] Is(j, "bool") -> Ok(IF j.bool THEN 100 ELSE 0)
    [] Is(j, "string") ->
         IF j.string \in DOMAIN StrToNum THEN Ok(StrToNum[j.string]) ELSE Fail
    [] OTHER -> Fail

\* An int field takes what a float field takes when it has no fractional
\* part; the field carries no bounds (line 45: only a description).
int_validate(j) ==
  CASE Is(j, "number") -> IF j.number % 100 = 0 THEN Ok(j.number \div 100) ELSE Fail
    [] Is(j, "bool") -> Ok(IF j.bool THEN 1 ELSE 0)
    [] Is(j, "string") ->
         IF j.string \in DOMAIN StrToNum /\ StrToNum[j.string] % 100 = 0
         THEN Ok(StrToNum[j.string] \div 100) ELSE Fail
    [] OTHER -> Fail

\* A bool field takes a bool, the numbers 0 and 1, or a text such as "yes".
bool_validate(j) ==
  CASE Is(j, "bool") -> Ok(j.bool)
    [] Is(j, "number") -> IF j.number \in {0, 100} THEN Ok(j.number = 100) ELSE Fail
    [] Is(j, "string") ->
         IF j.string \in DOMAIN StrToBool THEN Ok(StrToBool[j.string]) ELSE Fail
    [] OTHER -> Fail

\* A List[str] field takes an array all of whose elements are strings.
list_str_validate(j) ==
  IF Is(j, "array") /\ \A i \in DOMAIN j.array : str_validate(j.array[i]).ok
  THEN Ok([i \in DOMAIN j.array |-> str_validate(j.array[i]).value])
  ELSE Fail

LineItemFields == {"description", "quantity", "unit_price", "total"}

RiskAssessmentFields == {"is_math_correct", "flagged_issues", "fraud_score"}

InvoiceExtractionFields ==
  {"vendor_name", "invoice_date", "invoice_number", "line_items", "subtotal",
   "tax_amount", "grand_total", "currency", "risk_assessment"}

\* class LineItem (lines 36-40)
LineItem(j) ==
  IF Is(j, "object") /\ LineItemFields \subseteq DOMAIN j.object
     /\ str_validate(j.object.description).ok /\ float_validate(j.object.quantity).ok
     /\ float_validate(j.object.unit_price).ok /\ float_validate(j.object.total).ok
  THEN Ok([description |-> str_validate(j.object.description).value,
           quantity |-> float_validate(j.object.quantity).value,
           unit_price |-> float_validate(j.object.unit_price).value,
           total |-> float_validate(j.object.total).value])
  ELSE Fail

\* A List[LineItem] field takes an array all of whose elements validate.
list_LineItem_validate(j) ==
  IF Is(j, "array") /\ \A i \in DOMAIN j.array : LineItem(j.array[i]).ok
  THEN Ok([i \in DOMAIN j.array |-> LineItem(j.array[i]).value])
  ELSE Fail

\* RiskAssessment as it would be with flagged_issues defaulting to an empty
\* list instead of being read from the input.
RiskAssessmentDroppingIssues(j) ==
  IF Is(j, "object") /\ RiskAssessmentFields \subseteq DOMAIN j.object
     /\ bool_validate(j.object.is_math_correct).ok
     /\ list_str_validate(j.object.flagged_issues).ok
     /\ int_validate(j.object.fraud_score).ok
  THEN Ok([is_math_correct |-> bool_validate(j.object.is_math_correct).value,
           flagged_issues |-> <<>>,
           fraud_score |-> int_validate(j.object.fraud_score).value])
  ELSE Fail

\* class RiskAssessment (lines 42-45)
RiskAssessment(j) ==
  IF Is(j, "object") /\ RiskAssessmentFields \subseteq DOMAIN j.object
     /\ bool_validate(j.object.is_math_correct).ok
     /\ list_str_validate(j.object.flagged_issues).ok
     /\ int_validate(j.object.fraud_score).ok
  THEN Ok([is_math_correct |-> bool_validate(j.object.is_math_correct).value,
           flagged_issues |-> list_str_validate(j.object.flagged_issues).value,
           fraud_score |-> int_validate(j.object.fraud_score).value])
  ELSE Fail

\* class InvoiceExtraction (lines 47-56): every field is required.
InvoiceExtraction(j) ==
  IF Is(j, "object") /\ InvoiceExtractionFields \subseteq DOMAIN j.object
     /\ str_validate(j.object.vendor_name).ok /\ str_validate(j.object.invoice_date).ok
     /\ str_validate(j.object.invoice_number).ok
     /\ list_LineItem_validate(j.object.line_items).ok
     /\ float_validate(j.object.subtotal).ok /\ float_validate(j.object.tax_amount).ok
     /\ float_validate(j.object.grand_total).ok /\ str_validate(j.object.currency).ok
     /\ RiskAssessment(j.object.risk_assessment).ok
  THEN Ok([vendor_name |-> str_validate(j.object.vendor_name).value,
           invoice_date |-> str_validate(j.object.invoice_date).value,
           invoice_number |-> str_validate(j.object.invoice_number).value,
           line_items |-> list_LineItem_validate(j.object.line_items).value,
           subtotal |-> float_validate(j.object.subtotal).value,
           tax_amount |-> float_validate(j.object.tax_amount).value,
           grand_total |-> float_validate(j.object.grand_total).value,
           currency |-> str_validate(j.object.currency).value,
           risk_assessment |-> RiskAssessment(j.object.risk_assessment).value])
  ELSE Fail

PyModel(rec) == [py |-> "InvoiceExtraction", model |-> rec]

-----------------------------------------------------------------------------
(* What a backend can answer to one call *)

\* The SDK raises: an exception class, named by what went wrong.
AdapterErrors ==
  {"Unauthorized", "RateLimited", "Timeout", "Unreachable", "UnexpectedResponseShape"}

ErrorReply(e) == [kind |-> "error", err |-> e]

\* The model declines to answer.
Refusal == [kind |-> "refusal"]

\* A reply whose text json.loads cannot parse.
NotJson == [kind |-> "text", json |-> FALSE]

\* A reply whose text json.loads parses to the value j.
JsonReply(j) == [kind |-> "text", json |-> TRUE, value |-> j]

Item(q, p, t) ==
  JObj([description |-> JStr("Widget"), quantity |-> JNum(q),
        unit_price |-> JNum(p), total |-> JNum(t)])

\* 2 x 10.00 billed as 20.00 and as 25.00.
ItemChoices == {Item(200, 1000, 2000), Item(200, 1000, 2500)}

ItemSeqs == UNION {[1..n -> ItemChoices] : n \in 0..MaxItems}

RECURSIVE SumTotals(_)
SumTotals(items) ==
  IF items = <<>> THEN 0 ELSE Head(items).object.total.number + SumTotals(Tail(items))

Risk(imc, issues, score) ==
  JObj([is_math_correct |-> JBool(imc), flagged_issues |-> JArr(issues),
        fraud_score |-> JNum(score * 100)])

Invoice(items, subtotal, tax, grand, risk) ==
  JObj([vendor_name |-> JStr("Acme"), invoice_date |-> JStr("2024-01-05"),
        invoice_number |-> JStr("INV-1"), line_items |-> JArr(items),
        subtotal |-> JNum(subtotal), tax_amount |-> JNum(tax),
        grand_total |-> JNum(grand), currency |-> JStr("USD"),
        risk_assessment |-> risk])

ScoreChoices == {-1, 5, 40, 100, 150}

IssueChoices == {<<>>, <<JStr("Line total does not match")>>}

\* How far subtotal is off the sum of the line totals, and grand_total off
\* subtotal + tax_amount.
TotalsChoices == {<<0, 0>>, <<500, 0>>, <<0, 300>>}

\* Replies of the right shape: every field present, every value of its JSON type.
ShapedInvoices ==
  { Invoice(items, SumTotals(items) + d[1], 200, SumTotals(items) + d[1] + 200 + d[2],
            Risk(imc, issues, score)) :
      items \in ItemSeqs, d \in TotalsChoices, imc \in BOOLEAN,
      issues \in IssueChoices, score \in ScoreChoices }

RiskA == Risk(TRUE, <<>>, 5)

\* The reply of the spec's scenario A.
InvoiceA == Invoice(<<Item(200, 1000, 2000)>>, 2000, 200, 2200, RiskA)

Without(o, f) == JObj([k \in DOMAIN o.object \ {f} |-> o.object[k]])

With(o, f, j) == JObj([k \in DOMAIN o.object |-> IF k = f THEN j ELSE o.object[k]])

\* Replies that are JSON but miss a field or carry a value of another type.
OddInvoices ==
  {Without(InvoiceA, f) : f \in InvoiceExtractionFields}
  \cup {With(InvoiceA, "risk_assessment", Without(RiskA, f)) : f \in RiskAssessmentFields}
  \cup {With(InvoiceA, "risk_assessment", With(RiskA, "fraud_score", j)) :
          j \in {JStr("high"), JStr("150"), JStr("5"), JNum(550), JNull}}
  \cup {With(InvoiceA, "risk_assessment", With(RiskA, "is_math_correct", j)) :
          j \in {JStr("yes"), JStr("maybe"), JNum(100)}}
  \cup {With(InvoiceA, "subtotal", j) : j \in {JStr("12.50"), JStr("twenty"), JNull}}
  \cup {With(InvoiceA, "line_items", j) :
          j \in {JNull, JArr(<<Without(Item(200, 1000, 2000), "total")>>)}}
  \cup {With(InvoiceA, "vendor_name", JNum(100)), JArr(<<InvoiceA>>), JNull}

Replies ==
  {ErrorReply(e) : e \in AdapterErrors} \cup {Refusal, NotJson}
  \cup {JsonReply(j) : j \in ShapedInvoices \cup OddInvoices}

\* The replies of the concurrent specification.
FewReplies == {ErrorReply("Unauthorized"), NotJson, JsonReply(InvoiceA)}

-----------------------------------------------------------------------------
(* analyze_invoice (lines 71-151) *)

Return(v) == [kind |-> "return", value |-> v]

Raise(e) == [kind |-> "raise", exc |-> e]

\* InvoiceExtraction(**json.loads(text)) (lines 107, 133, 147): json.loads
\* raises on a text that is not JSON, ** raises on a value that is no object,
\* the model raises on a field that is missing or does not validate.
ParseAndValidate(rep) ==
  IF rep.kind = "refusal" \/ ~rep.json THEN Raise("JSONDecodeError")
  ELSE IF ~Is(rep.value, "object") THEN Raise("TypeError")
  ELSE IF InvoiceExtraction(rep.value).ok
       THEN Return(PyModel(InvoiceExtraction(rep.value).value))
       ELSE Raise("ValidationError")

\* completion.choices[0].message.parsed (lines 113-121): the SDK validates the
\* content against the model; parsed is None when the model refused.
ParsedByOpenAI(rep) ==
  IF rep.kind = "refusal" THEN Return(PyNone)
  ELSE IF rep.json /\ InvoiceExtraction(rep.value).ok
       THEN Return(PyModel(InvoiceExtraction(rep.value).value))
       ELSE Raise("ValidationError")

\* The body of the try block once the backend has answered with rep.
TryBody(p, rep) ==
  IF rep.kind = "error" THEN Raise(rep.err)
  ELSE IF p = "OpenAI" THEN ParsedByOpenAI(rep)
  ELSE ParseAndValidate(rep)

\* The handler as it would be if it caught the parsing failures only.
CaughtParsingOnly(exc) == exc \in {"JSONDecodeError", "ValidationError"}

\* The classes `except Exception` (line 149) catches: all those raised here.
Caught(exc) ==
  exc \in AdapterErrors \cup {"JSONDecodeError", "TypeError", "ValidationError"}

Escaped(exc) == [py |-> "exception", exc |-> exc]

\* What analyze_invoice hands to its caller and shows, given the try body's end.
Handle(body) ==
  IF body.kind = "return" THEN [value |-> body.value, shown |-> <<>>]
  ELSE IF Caught(body.exc)
       THEN [value |-> PyNone,
             shown |-> <<Message("error", "Analysis Failed", body.exc)>>]
       ELSE [value |-> Escaped(body.exc), shown |-> <<>>]

-----------------------------------------------------------------------------
(* The script run *)

NoReply == [kind |-> "none"]

\* No analysis in this script run: `result` is not bound.
Unset == [py |-> "unset"]

\* The button's branches without the check of the extracted text.
GateKeyOnly(key, text) == IF key = "" THEN "no_key" ELSE "analyze"

\* The button's branches (lines 194-198).
Gate(key, text) ==
  CASE key = "" -> "no_key"
    [] ~Truthy(text) -> "no_text"
    [] OTHER -> "analyze"

\* The key an outbound call carries: the Gemini SDK reads the key from the
\* module-level configuration when generate_content runs (lines 104-106); each
\* other client is built from the run's own api_key (lines 112, 126, 138).
CredentialUsed(p, own, configured) ==
  IF p = "Google Gemini" THEN configured ELSE own

\* The calls of a run that repeats its call whenever the SDK raised.
CallsMadeRetrying(made, call, rep) ==
  IF rep.kind = "error" THEN made \o <<call, call>> ELSE Append(made, call)

\* The outbound calls of a run after its call was answered with rep: each
\* branch holds one call statement and nothing loops back to it.
CallsMade(made, call, rep) == Append(made, call)

\* The sets of SDKs that may be importable: all, or all but one.
InstalledChoices == {Providers \ m : m \in {{}} \cup {{p} : p \in Providers}}

Sessions == 1..NSessions

\* The state of a process whose sessions `open` have a browser connected: the
\* radio shows its first option, the key is empty, nothing is uploaded.
InitFor(open) ==
  /\ provider = [r \in Sessions |-> "OpenAI"]
  /\ api_key = [r \in Sessions |-> ""]
  /\ uploaded_file = [r \in Sessions |-> NoFile]
  /\ pc = [r \in Sessions |-> IF r \in open THEN "idle" ELSE "closed"]
  /\ reply = [r \in Sessions |-> NoReply]
  /\ result = [r \in Sessions |-> Unset]
  /\ calls = [r \in Sessions |-> <<>>]
  /\ messages = [r \in Sessions |-> <<>>]
  /\ genai_api_key = ""
  /\ installed \in InstalledChoices

\* One user.
Init == InitFor({1})

\* Every session in use, in the one process.
InitConc == InitFor(Sessions)

Settled(r) == pc[r] \in {"idle", "done"}

\* A widget change reruns the script from the top: the button reads False and
\* nothing of the last analysis is shown again.
Rerun(r, f) ==
  /\ pc' = [pc EXCEPT ![r] = "idle"]
  /\ reply' = [reply EXCEPT ![r] = NoReply]
  /\ result' = [result EXCEPT ![r] = Unset]
  /\ calls' = [calls EXCEPT ![r] = <<>>]
  /\ messages' = [messages EXCEPT ![r] = PreviewMessages(f)]
  /\ UNCHANGED <<genai_api_key, installed>>

\* st.radio (line 161)
SelectProvider(r) ==
  \E p \in Providers :
    /\ Settled(r) /\ p # provider[r]
    /\ provider' = [provider EXCEPT ![r] = p]
    /\ UNCHANGED <<api_key, uploaded_file>>
    /\ Rerun(r, uploaded_file[r])

\* st.text_input (line 162)
EnterKey(r) ==
  \E k \in Keys \cup {""} :
    /\ Settled(r) /\ k # api_key[r]
    /\ api_key' = [api_key EXCEPT ![r] = k]
    /\ UNCHANGED <<provider, uploaded_file>>
    /\ Rerun(r, uploaded_file[r])

\* st.file_uploader (line 172): a document is uploaded, replaced or removed.
Upload(r) ==
  \E f \in Docs \cup {NoFile} :
    /\ Settled(r) /\ f # uploaded_file[r]
    /\ uploaded_file' = [uploaded_file EXCEPT ![r] = f]
    /\ UNCHANGED <<provider, api_key>>
    /\ Rerun(r, f)

\* The button (lines 193-200), up to the backend call of analyze_invoice
\* (lines 100-103, 111, 125, 137).
Click(r) ==
  LET f == uploaded_file[r]
      gate == Gate(api_key[r], raw_text(f))
      shown ==
        CASE gate = "no_key" ->
               <<Message("warning", "Please provide your API Key", provider[r])>>
          [] gate = "no_text" ->
               <<Message("error", "Could not read text from PDF", "")>>
          [] provider[r] \notin installed ->
               <<Message("error", "Library not installed", provider[r])>>
          [] OTHER -> <<>>
      calling == gate = "analyze" /\ provider[r] \in installed
  IN /\ Settled(r) /\ f.present
     /\ pc' = [pc EXCEPT ![r] =
                 IF ~calling THEN "done"
                 ELSE IF provider[r] = "Google Gemini" THEN "configure" ELSE "call"]
     /\ result' = [result EXCEPT ![r] =
                     IF gate = "analyze" /\ ~calling THEN PyNone ELSE Unset]
     /\ messages' = [messages EXCEPT ![r] = PreviewMessages(f) \o shown]
     /\ reply' = [reply EXCEPT ![r] = NoReply]
     /\ calls' = [calls EXCEPT ![r] = <<>>]
     /\ UNCHANGED <<provider, api_key, uploaded_file, genai_api_key, installed>>

\* genai.configure(api_key=api_key) (line 104)
Configure(r) ==
  /\ pc[r] = "configure"
  /\ genai_api_key' = api_key[r]
  /\ pc' = [pc EXCEPT ![r] = "call"]
  /\ UNCHANGED <<provider, api_key, uploaded_file, reply, result, calls, messages,
                 installed>>

\* The outbound call and everything after it (lines 105-107, 112-121, 126-133,
\* 138-151): the backend answers, the reply is parsed and validated, a failure
\* is caught and shown.
BackendCall(r, answers) ==
  \E rep \in answers :
    LET call == [provider |-> provider[r],
                 key |-> CredentialUsed(provider[r], api_key[r], genai_api_key)]
        end == Handle(TryBody(provider[r], rep))
    IN /\ pc[r] = "call"
       /\ calls' = [calls EXCEPT ![r] = CallsMade(calls[r], call, rep)]
       /\ reply' = [reply EXCEPT ![r] = rep]
       /\ result' = [result EXCEPT ![r] = end.value]
       /\ messages' = [messages EXCEPT ![r] = messages[r] \o end.shown]
       /\ pc' = [pc EXCEPT ![r] = "done"]
       /\ UNCHANGED <<provider, api_key, uploaded_file, genai_api_key, installed>>

Next ==
  \E r \in Sessions :
    \/ SelectProvider(r)
    \/ EnterKey(r)
    \/ Upload(r)
    \/ Click(r)
    \/ Configure(r)
    \/ BackendCall(r, Replies)

NextConc ==
  \E r \in Sessions :
    \/ SelectProvider(r)
    \/ EnterKey(r)
    \/ Upload(r)
    \/ Click(r)
    \/ Configure(r)
    \/ BackendCall(r, FewReplies)

Spec == Init /\ [][Next]_vars

SpecConc == InitConc /\ [][NextConc]_vars

-----------------------------------------------------------------------------
(* What the claims speak of *)

\* The script run of session r has ended.
Finished(r) == pc[r] = "done"

\* analyze_invoice was called in the run and has come back.
Analysed(r) == Finished(r) /\ result[r] # Unset

IsRecord(x) == x.py = "InvoiceExtraction"

\* The run's call was answered, and analyze_invoice returned no record.
Failed(r) == Finished(r) /\ reply[r] # NoReply /\ ~IsRecord(result[r])

Shown(r, text, detail) ==
  \E i \in DOMAIN messages[r] :
     messages[r][i].text = text /\ messages[r][i].detail = detail

\* Every field of the canonical schema is there, with a value of its type.
Complete(rec) ==
  /\ DOMAIN rec = InvoiceExtractionFields
  /\ rec.subtotal \in Int /\ rec.tax_amount \in Int /\ rec.grand_total \in Int
  /\ \A i \in DOMAIN rec.line_items :
       /\ DOMAIN rec.line_items[i] = LineItemFields
       /\ rec.line_items[i].quantity \in Int
       /\ rec.line_items[i].unit_price \in Int
       /\ rec.line_items[i].total \in Int
  /\ DOMAIN rec.risk_assessment = RiskAssessmentFields
  /\ rec.risk_assessment.is_math_correct \in BOOLEAN
  /\ rec.risk_assessment.fraud_score \in Int

\* The reply is a JSON object that names every field the schema requires.
NamesEveryField(rep) ==
  /\ rep.kind = "text" /\ rep.json /\ Is(rep.value, "object")
  /\ InvoiceExtractionFields \subseteq DOMAIN rep.value.object
  /\ Is(rep.value.object.risk_assessment, "object")
  /\ RiskAssessmentFields \subseteq DOMAIN rep.value.object.risk_assessment.object
  /\ Is(rep.value.object.line_items, "array")
  /\ \A i \in DOMAIN rep.value.object.line_items.array :
       /\ Is(rep.value.object.line_items.array[i], "object")
       /\ LineItemFields \subseteq DOMAIN rep.value.object.line_items.array[i].object

Abs(n) == IF n < 0 THEN -n ELSE n

\* total differs from quantity * unit_price by more than 0.01 (amounts are in
\* hundredths, their product in ten-thousandths).
LineMismatch(item) == Abs(item.quantity * item.unit_price - item.total * 100) > 100

RECURSIVE SumOfTotals(_)
SumOfTotals(items) ==
  IF items = <<>> THEN 0 ELSE Head(items).total + SumOfTotals(Tail(items))

\* The arithmetic of a record is wrong: a line, the subtotal or the grand total
\* is off by more than 0.01.
MathWrong(rec) ==
  \/ \E i \in DOMAIN rec.line_items : LineMismatch(rec.line_items[i])
  \/ Abs(SumOfTotals(rec.line_items) - rec.subtotal) > 1
  \/ Abs(rec.subtotal + rec.tax_amount - rec.grand_total) > 1

\* The risk assessment the backend wrote, read from the reply of a run that
\* returned a record.
Reported(r) == RiskAssessment(reply[r].value.object.risk_assessment).value

\* The reply has every field, each value of exactly its JSON type, and a
\* fraud_score that is a whole number of 0..100.
SchemaValid(rep) ==
  /\ NamesEveryField(rep)
  /\ LET o == rep.value.object
         risk == o.risk_assessment.object
     IN /\ \A f \in {"vendor_name", "invoice_date", "invoice_number", "currency"} :
             Is(o[f], "string")
        /\ \A f \in {"subtotal", "tax_amount", "grand_total"} : Is(o[f], "number")
        /\ \A i \in DOMAIN o.line_items.array :
             LET item == o.line_items.array[i].object
             IN /\ Is(item.description, "string")
                /\ \A f \in {"quantity", "unit_price", "total"} : Is(item[f], "number")
        /\ Is(risk.is_math_correct, "bool")
        /\ Is(risk.flagged_issues, "array")
        /\ \A i \in DOMAIN risk.flagged_issues.array :
             Is(risk.flagged_issues.array[i], "string")
        /\ Is(risk.fraud_score, "number")
        /\ risk.fraud_score.number \in {100 * n : n \in 0..100}

\* The reply's arithmetic is exact and the backend says so.
ConsistentReply(rep) ==
  /\ SchemaValid(rep)
  /\ LET o == rep.value.object
         items == o.line_items.array
     IN /\ \A i \in DOMAIN items :
             items[i].object.quantity.number * items[i].object.unit_price.number
               = items[i].object.total.number * 100
        /\ o.subtotal.number = SumTotals(items)
        /\ o.grand_total.number = o.subtotal.number + o.tax_amount.number
        /\ o.risk_assessment.object.is_math_correct.bool

-----------------------------------------------------------------------------
(* The claims *)

\* C1: a run of analyze_invoice ends with a record in which every field of
\* the schema is present and validated, which it returns only for a reply that
\* names every field, or with None; no exception leaves it and no other value
\* is returned.
C1_RecordOrNothing ==
  \A r \in Sessions :
    Analysed(r) =>
      \/ result[r] = PyNone
      \/ /\ IsRecord(result[r])
         /\ Complete(result[r].model)
         /\ NamesEveryField(reply[r])

\* A reply that is a JSON object with a field missing ended with None.
C1_Witness ==
  \E r \in Sessions :
    /\ Analysed(r) /\ result[r] = PyNone
    /\ reply[r].kind = "text" /\ reply[r].json /\ Is(reply[r].value, "object")
    /\ ~NamesEveryField(reply[r])

\* C2: a returned record with a line whose total is off quantity * unit_price
\* by more than 0.01 has is_math_correct = false and one more flagged issue
\* than the backend reported.
C2_MismatchReported ==
  \A r \in Sessions :
    (/\ Finished(r) /\ IsRecord(result[r])
     /\ \E i \in DOMAIN result[r].model.line_items :
          LineMismatch(result[r].model.line_items[i]))
    => /\ ~result[r].model.risk_assessment.is_math_correct
       /\ Len(result[r].model.risk_assessment.flagged_issues)
            > Len(Reported(r).flagged_issues)

\* C3: the fraud_score of a returned record lies in 0..100.
C3_ScoreInRange ==
  \A r \in Sessions :
    Finished(r) /\ IsRecord(result[r])
      => result[r].model.risk_assessment.fraud_score \in 0..100

\* C4: every outbound call of a run carries the credential of its own session.
C4_OwnCredential ==
  \A r \in Sessions :
    \A i \in DOMAIN calls[r] : calls[r][i].key = api_key[r]

\* C5: a run whose call failed as Unauthorized has made exactly one call and
\* has surfaced the failure: no record, and the failure shown.
C5_UnauthorizedNotRetried ==
  \A r \in Sessions :
    Finished(r) /\ reply[r] = ErrorReply("Unauthorized")
      => /\ Len(calls[r]) = 1
         /\ result[r] = PyNone
         /\ Shown(r, "Analysis Failed", "Unauthorized")

\* A run has ended on an Unauthorized failure.
C5_Witness ==
  \E r \in Sessions : Finished(r) /\ reply[r] = ErrorReply("Unauthorized")

\* C6: a run that surfaces a Timeout or RateLimited failure has made exactly
\* two calls.
C6_TimeoutRetriedOnce ==
  \A r \in Sessions :
    Finished(r) /\ reply[r] \in {ErrorReply("Timeout"), ErrorReply("RateLimited")}
      => Len(calls[r]) = 2

\* C7: what a run returns after its adapter failed differs from what a run
\* returns after the reply failed validation, so that the caller can tell the
\* stage of the failure.
C7_StageTold ==
  \A r \in Sessions :
    Failed(r) /\ reply[r].kind = "error"
      => \A rep \in Replies :
           rep.kind = "text" /\ ~IsRecord(Handle(TryBody(provider[r], rep)).value)
             => Handle(TryBody(provider[r], rep)).value # result[r]

\* C8: the fraud_score of a returned record is at least 40 when its arithmetic
\* is wrong and the backend's score was below 40, and the backend's score in
\* every other case.
C8_FraudFloor ==
  \A r \in Sessions :
    Finished(r) /\ IsRecord(result[r])
      => LET score == result[r].model.risk_assessment.fraud_score
         IN IF MathWrong(result[r].model) /\ Reported(r).fraud_score < 40
            THEN score >= 40
            ELSE score = Reported(r).fraud_score

\* C9: a schema-valid reply whose arithmetic is exact and whose is_math_correct
\* is true comes back as a record with is_math_correct = true, the reply's
\* flagged issues and no other, and the reply's line items, totals and
\* fraud_score.
C9_ConsistentUnchanged ==
  \A r \in Sessions :
    Finished(r) /\ reply[r] # NoReply /\ ConsistentReply(reply[r])
      => /\ IsRecord(result[r])
         /\ LET rec == result[r].model
                o == reply[r].value.object
                risk == o.risk_assessment.object
            IN /\ rec.risk_assessment.is_math_correct
               /\ Len(rec.risk_assessment.flagged_issues) = Len(risk.flagged_issues.array)
               /\ \A i \in DOMAIN risk.flagged_issues.array :
                    rec.risk_assessment.flagged_issues[i] = risk.flagged_issues.array[i].string
               /\ rec.risk_assessment.fraud_score * 100 = risk.fraud_score.number
               /\ Len(rec.line_items) = Len(o.line_items.array)
               /\ \A i \in DOMAIN o.line_items.array :
                    /\ rec.line_items[i].description = o.line_items.array[i].object.description.string
                    /\ rec.line_items[i].quantity = o.line_items.array[i].object.quantity.number
                    /\ rec.line_items[i].unit_price = o.line_items.array[i].object.unit_price.number
                    /\ rec.line_items[i].total = o.line_items.array[i].object.total.number
               /\ rec.subtotal = o.subtotal.number
               /\ rec.tax_amount = o.tax_amount.number
               /\ rec.grand_total = o.grand_total.number

\* A consistent reply with a line item and an issue the backend flagged has
\* been returned.
C9_Witness ==
  \E r \in Sessions :
    /\ Finished(r) /\ reply[r] # NoReply /\ ConsistentReply(reply[r])
    /\ IsRecord(result[r])
    /\ reply[r].value.object.line_items.array # <<>>
    /\ reply[r].value.object.risk_assessment.object.flagged_issues.array # <<>>

\* C10: a run is at its backend call, or has made one, only with a non-empty
\* key and a non-empty extracted text; a run triggered without them ends with
\* no call, no analysis, and the problem shown.
C10_NoCallUnlessReady ==
  \A r \in Sessions :
    LET ready == api_key[r] # "" /\ Truthy(raw_text(uploaded_file[r]))
    IN /\ (pc[r] \in {"configure", "call"} \/ calls[r] # <<>>) => ready
       /\ Finished(r) /\ ~ready
            => /\ calls[r] = <<>>
               /\ result[r] = Unset
               /\ \/ Shown(r, "Please provide your API Key", provider[r])
                  \/ Shown(r, "Could not read text from PDF", "")

\* A run triggered with a key on a document without text has ended.
C10_Witness ==
  \E r \in Sessions :
    /\ Finished(r) /\ api_key[r] # ""
    /\ ~Truthy(raw_text(uploaded_file[r]))
    /\ calls[r] = <<>>

====
